---- MODULE Spec2Model ----
(***************************************************************************)
(* Model of rust-rest-test (src/src/lib.rs): the sequential test runner    *)
(* execute_tests with its helpers validate_http_method, fetch_url,         *)
(* create_and_send_request, parse_json_response, log and write_logfile.    *)
(*                                                                         *)
(* Strings the code processes character by character (method names,       *)
(* captured values, header values) are sequences of one-character strings; *)
(* strings the code only compares or uses as map keys (capture keys, field *)
(* names, routes) are TLA+ strings.  Option<T> is a sequence of length 0   *)
(* (None) or 1 (Some).                                                     *)
(***************************************************************************)
EXTENDS Integers, Sequences, FiniteSets, TLC

VARIABLES
    rest_test_config,  \* the parsed Config (lib.rs:361), read-only
    api,               \* the API under test: the responses it is able to give
    pc,                \* position of execute_tests
    console,           \* lines written to stdout/stderr, in order
    log_buffer,        \* Option<String> log_buffer (lib.rs:370), as lines
    logfile,           \* Option: content of the log file written at the end
    test_count,        \* lib.rs:380
    test_index,        \* lib.rs:381
    tests_passed,      \* lib.rs:382
    time_boundaries,   \* lib.rs:385, the running default
    captures,          \* lib.rs:387, the variable store
    response_time,     \* lib.rs:390
    buffer,            \* lib.rs:460, the response body buffer
    test_request,      \* Option<TestRequest> of the running test (lib.rs:466)
    response,          \* Option: status of the response received (lib.rs:479)
    sent               \* the requests handed to the HTTP client, in order

vars == <<rest_test_config, api, pc, console, log_buffer, logfile, test_count,
          test_index, tests_passed, time_boundaries, captures, response_time,
          buffer, test_request, response, sent>>

----------------------------------------------------------------------------
(* Bounds of the model.                                                    *)

\* longest suite of the families that vary criticalness and time boundaries
MaxTests == 2
\* largest response time and time boundary drawn, in ms
MaxTime == 3

----------------------------------------------------------------------------
(* Option and HashMap.                                                     *)

None == <<>>

Some(v) == <<v>>

unwrap_or(o, d) == IF o = None THEN d ELSE o[1]

EmptyMap == [k \in {} |-> None]

\* HashMap::get: Option of the value stored under key
get(map, key) == IF key \in DOMAIN map THEN Some(map[key]) ELSE None

\* a variant of insert that keeps the value a key already has
insert_keep_first(map, key, value) ==
    [k \in DOMAIN map \cup {key} |-> IF k \in DOMAIN map THEN map[k] ELSE value]

\* HashMap::insert: adds the key or overwrites its value
insert(map, key, value) ==
    [k \in DOMAIN map \cup {key} |-> IF k = key THEN value ELSE map[k]]

----------------------------------------------------------------------------
(* Characters and strings.                                                 *)

UpperLetters == <<"A","B","C","D","E","F","G","H","I","J","K","L","M",
                  "N","O","P","Q","R","S","T","U","V","W","X","Y","Z">>

LowerLetters == <<"a","b","c","d","e","f","g","h","i","j","k","l","m",
                  "n","o","p","q","r","s","t","u","v","w","x","y","z">>

\* char::to_lowercase on the characters of the model
lower_char(c) ==
    IF \E i \in 1..26 : UpperLetters[i] = c
    THEN LowerLetters[CHOOSE i \in 1..26 : UpperLetters[i] = c]
    ELSE c

\* a variant of to_lowercase that leaves the string as it is
to_lowercase_identity(s) == s

\* String::to_lowercase
to_lowercase(s) == [i \in 1..Len(s) |-> lower_char(s[i])]

\* the characters of a decimal digit
digit(d) == <<"0","1","2","3","4","5","6","7","8","9">>[d + 1]

RECURSIVE digits(_)
\* u64::to_string
digits(n) == IF n < 10 THEN <<digit(n)>> ELSE digits(n \div 10) \o <<digit(n % 10)>>

----------------------------------------------------------------------------
(* Method Resolver.                                                        *)

\* enum HttpMethod in declaration order, which is the order of iter()
HttpMethod == <<"get", "post", "put", "patch", "delete", "options", "head">>

\* strum Display of a variant: its name, character by character
method_to_string(m) ==
    CASE m = "get"     -> <<"g","e","t">>
      [] m = "post"    -> <<"p","o","s","t">>
      [] m = "put"     -> <<"p","u","t">>
      [] m = "patch"   -> <<"p","a","t","c","h">>
      [] m = "delete"  -> <<"d","e","l","e","t","e">>
      [] m = "options" -> <<"o","p","t","i","o","n","s">>
      [] m = "head"    -> <<"h","e","a","d">>

\* Option<HttpMethod>: the first variant whose name is the lower-cased method
validate_http_method(method) ==
    LET found == {i \in 1..Len(HttpMethod) :
                     method_to_string(HttpMethod[i]) = to_lowercase(method)}
    IN  IF found = {} THEN None
        ELSE Some(HttpMethod[CHOOSE i \in found : \A j \in found : i <= j])

\* the hyper::Method a variant maps to
hyper_method(m) ==
    CASE m = "get"     -> "GET"
      [] m = "post"    -> "POST"
      [] m = "put"     -> "PUT"
      [] m = "patch"   -> "PATCH"
      [] m = "delete"  -> "DELETE"
      [] m = "head"    -> "HEAD"
      [] m = "options" -> "OPTIONS"

----------------------------------------------------------------------------
(* JSON values of serde_json and their Display form.                       *)

JNull == [t |-> "null"]

JBool(b) == [t |-> "bool", b |-> b]

JNumber(n) == [t |-> "number", n |-> n]

JString(s) == [t |-> "string", s |-> s]

JArray == [t |-> "array"]

JObject(fields) == [t |-> "object", fields |-> fields]

is_null(v) == v.t = "null"

\* serde_json's escape of one character of a string
escape_char(c) ==
    CASE c = "\"" -> <<"\\", "\"">>
      [] c = "\\" -> <<"\\", "\\">>
      [] c = "\n" -> <<"\\", "n">>
      [] OTHER    -> <<c>>

RECURSIVE escape(_)
\* the escaped content of a JSON string
escape(s) == IF s = <<>> THEN <<>> ELSE escape_char(Head(s)) \o escape(Tail(s))

\* Value::to_string: the compact JSON text of a value (arrays and nested
\* objects of the model are empty)
to_string(v) ==
    CASE v.t = "null"   -> <<"n","u","l","l">>
      [] v.t = "bool"   -> IF v.b THEN <<"t","r","u","e">> ELSE <<"f","a","l","s","e">>
      [] v.t = "number" -> digits(v.n)
      [] v.t = "string" -> <<"\"">> \o escape(v.s) \o <<"\"">>
      [] v.t = "array"  -> <<"[", "]">>
      [] v.t = "object" -> <<"{", "}">>

\* Value::index by a field name: the field of an object, Null otherwise
index(v, field) ==
    IF v.t = "object" /\ field \in DOMAIN v.fields THEN v.fields[field] ELSE JNull

\* String::pop: drops the last character, if any
pop(s) == IF s = <<>> THEN s ELSE SubSeq(s, 1, Len(s) - 1)

\* String::remove(0)
remove_first(s) == Tail(s)

\* lib.rs:223-229: the text stored for a captured value
string_captured(v) ==
    LET popped == pop(to_string(v))
    IN  IF popped # <<>> THEN remove_first(popped) ELSE popped

----------------------------------------------------------------------------
(* Response bodies.  A body is known by its first byte (None when empty)   *)
(* and by what serde_json::from_str makes of it: None for an error, Some   *)
(* of the parsed value otherwise.                                          *)

Body(first, json) == [first |-> first, json |-> json]

is_empty(body) == body.first = None

\* serde_json::from_str on the buffer
from_str(body) == body.json

----------------------------------------------------------------------------
(* Output.  An entry of output is a line with where it goes: log() prints  *)
(* and stores under the same condition, println! only prints.              *)

\* lib.rs:165-174 log(formatted_string, Some(condition), log_buffer)
log(text, condition) == [text |-> text, shown |-> condition, logged |-> condition]

\* println! and panic messages: to the terminal only
println(text) == [text |-> text, shown |-> TRUE, logged |-> FALSE]

is_shown(entry) == entry.shown

is_logged(entry) == entry.logged

texts(entries) == [i \in 1..Len(entries) |-> entries[i].text]

\* the terminal after the entries
printed(entries) == console \o texts(SelectSeq(entries, is_shown))

\* the log buffer after the entries: untouched when it is None
buffered(entries) ==
    IF log_buffer = None THEN None
    ELSE Some(log_buffer[1] \o texts(SelectSeq(entries, is_logged)))

----------------------------------------------------------------------------
(* Parts of one loop iteration of execute_tests.                           *)

\* the sequences that enumerate a finite set: the orders a HashMap may
\* iterate in
Orders(S) ==
    {o \in [1..Cardinality(S) -> S] : \A i, j \in 1..Cardinality(S) : o[i] = o[j] => i = j}

\* a variant of effective_verbose in which a test that declares no verbosity
\* takes that of the test before it
effective_verbose_carried(test) ==
    unwrap_or(test.verbose,
              IF test_request # None THEN test_request[1].verbose
              ELSE unwrap_or(rest_test_config.verbose, FALSE))

\* lib.rs:393-397: local verbosity is of higher precedence
effective_verbose(test) ==
    unwrap_or(test.verbose, unwrap_or(rest_test_config.verbose, FALSE))

\* a variant of is_critical that reports every test as critical
is_critical_always(test) == TRUE

\* a variant of is_critical that never reports a test as critical
is_critical_never(test) == FALSE

\* lib.rs:400: criticalness, false by default
is_critical(test) == unwrap_or(test.critical, FALSE)

\* lib.rs:385: the boundaries used when the suite declares none
DefaultTimeBoundaries == <<500, 1000, 10000>>

\* a variant of effective_boundaries that falls back to the suite's value
effective_boundaries_suite(test) ==
    unwrap_or(test.time_boundaries,
              unwrap_or(rest_test_config.time_boundaries, DefaultTimeBoundaries))

\* lib.rs:403-406: a local definition overwrites the running time boundaries
effective_boundaries(test) == unwrap_or(test.time_boundaries, time_boundaries)

\* lib.rs:177-179 generate_description
generate_description(status, method, route) ==
    <<"gets a Status", status, "when sending a", method, "request to the", route>>

\* lib.rs:413-428: the description line of a test, if it has one
description(test) ==
    IF test.it # None THEN <<log(<<"it", test.it[1]>>, TRUE)>>
    ELSE IF test.auto_description # None /\ ~test.auto_description[1] THEN <<>>
    ELSE <<log(generate_description(test.status, test.method, test.route), TRUE)>>

\* hyper::Uri parsing of the url: an error (None) when it holds a space
parse_uri(url) == IF \E i \in 1..Len(url) : url[i] = " " THEN None ELSE Some(url)

RECURSIVE body_pairs(_, _)
\* lib.rs:444-446: the key-value pairs of the body, each followed by a comma
body_pairs(value_map, order) ==
    IF order = <<>> THEN <<>>
    ELSE <<"\"", Head(order), "\"", ":", "\"", value_map[Head(order)], "\"", ",">>
         \o body_pairs(value_map, Tail(order))

\* lib.rs:442-457: the json body of the request, empty without json_body
request_body(json_body, order) ==
    IF json_body = None THEN <<>>
    ELSE LET body == <<"{">> \o body_pairs(json_body[1], order)
             trimmed == IF body[Len(body)] = "," THEN pop(body) ELSE body
         IN  trimmed \o <<"}">>

\* http::HeaderValue::from_str accepts a value without control characters
\* (the tab excepted) and without DEL
header_value_ok(value) ==
    \A i \in 1..Len(value) : value[i] \notin {"\n", "\r", "DEL"}

BearerPrefix == <<"B","e","a","r","e","r"," ">>

CookiePrefix == <<"c","o","n","n","e","c","t",".","s","i","d","=">>

\* a variant of token_of that sends an empty token for an unknown variable
token_of_or_empty(variable) == Some(unwrap_or(get(captures, unwrap_or(variable, "")), <<>>))

\* lib.rs:474-475: the captured value a test's variable names, if any
token_of(variable) == get(captures, unwrap_or(variable, ""))

\* lib.rs:283-319: the headers fetch_url composes and what it logs on the
\* way; ok is FALSE when a composed value is refused as a header value
compose_headers(request) ==
    LET bearer == BearerPrefix \o unwrap_or(request.bearer_token, <<>>)
        cookie == CookiePrefix \o unwrap_or(request.session_id, <<>>)
        out1 == IF request.bearer_token = None THEN <<>>
                ELSE <<log(<<"Bearer Token", request.bearer_token[1]>>, request.verbose),
                       log(<<"Composed token", bearer>>, request.verbose)>>
        out2 == IF request.session_id = None THEN <<>>
                ELSE <<log(<<"Session Token", request.session_id[1]>>, request.verbose),
                       log(<<"Composed token", cookie>>, request.verbose)>>
        h1 == IF request.bearer_token = None THEN EmptyMap
              ELSE insert(EmptyMap, "Authorization", bearer)
        h2 == IF request.session_id = None THEN h1 ELSE insert(h1, "Cookie", cookie)
        h3 == IF Len(request.body) > 0
              THEN insert(h2, "Content-Type", <<"application/json">>) ELSE h2
    IN  IF request.bearer_token # None /\ ~header_value_ok(bearer)
        THEN [ok |-> FALSE, out |-> out1, headers |-> h1]
        ELSE IF request.session_id # None /\ ~header_value_ok(cookie)
        THEN [ok |-> FALSE, out |-> out1 \o out2, headers |-> h2]
        ELSE [ok |-> TRUE, out |-> out1 \o out2, headers |-> h3]

RECURSIVE capture_loop_break(_, _, _, _)
\* a variant of capture_loop that gives up at the first field it cannot find
capture_loop_break(json_body, capture, order, store) ==
    IF order = <<>> THEN [captures |-> store, out |-> <<>>]
    ELSE LET key == Head(order)
             value == capture[key]
             captured_value == index(json_body, value)
         IN  IF is_null(captured_value)
             THEN [captures |-> store,
                   out |-> <<println(<<"Error: Cannot capture nonexistent value", value>>)>>]
             ELSE capture_loop_break(json_body, capture, Tail(order),
                                     insert(store, key, string_captured(captured_value)))

RECURSIVE capture_loop(_, _, _, _)
\* lib.rs:220-235: the capture directives applied in the order given
capture_loop(json_body, capture, order, store) ==
    IF order = <<>> THEN [captures |-> store, out |-> <<>>]
    ELSE LET key == Head(order)
             value == capture[key]
             captured_value == index(json_body, value)
             rest == capture_loop(json_body, capture, Tail(order),
                        IF is_null(captured_value) THEN store
                        ELSE insert(store, key, string_captured(captured_value)))
         IN  [captures |-> rest.captures,
              out |-> (IF is_null(captured_value)
                       THEN <<println(<<"Error: Cannot capture nonexistent value", value>>)>>
                       ELSE <<>>) \o rest.out]

\* a variant of parse_json_response that stores an empty text under every
\* capture key of the test when the body does not parse
parse_json_response_blank(response_buffer, store, test, order) ==
    IF ~is_empty(response_buffer) /\ response_buffer.first = Some("{")
    THEN IF from_str(response_buffer) = None
         THEN [captures |-> IF test.capture = None THEN store
                            ELSE [K \in DOMAIN store \cup DOMAIN test.capture[1] |->
                                    IF K \in DOMAIN test.capture[1] THEN <<>> ELSE store[K]],
               out |-> <<log(<<"Error while parsing response body as json">>, TRUE)>>]
         ELSE IF test.capture = None THEN [captures |-> store, out |-> <<>>]
         ELSE capture_loop(from_str(response_buffer)[1], test.capture[1], order, store)
    ELSE [captures |-> store, out |-> <<>>]

\* a variant of parse_json_response that parses every body that is not empty
parse_json_response_any(response_buffer, store, test, order) ==
    IF ~is_empty(response_buffer)
    THEN IF from_str(response_buffer) = None
         THEN [captures |-> store,
               out |-> <<log(<<"Error while parsing response body as json">>, TRUE)>>]
         ELSE IF test.capture = None THEN [captures |-> store, out |-> <<>>]
         ELSE capture_loop(from_str(response_buffer)[1], test.capture[1], order, store)
    ELSE [captures |-> store, out |-> <<>>]

\* lib.rs:204-240 parse_json_response: the store and the output after it
parse_json_response(response_buffer, store, test, order) ==
    IF ~is_empty(response_buffer) /\ response_buffer.first = Some("{")
    THEN IF from_str(response_buffer) = None
         THEN [captures |-> store,
               out |-> <<log(<<"Error while parsing response body as json">>, TRUE)>>]
         ELSE IF test.capture = None THEN [captures |-> store, out |-> <<>>]
         ELSE capture_loop(from_str(response_buffer)[1], test.capture[1], order, store)
    ELSE [captures |-> store, out |-> <<>>]

\* a variant of classify with closed upper ends
classify_inclusive(time, boundaries) ==
    IF time <= boundaries[1] THEN "green"
    ELSE IF time <= boundaries[2] THEN "yellow"
    ELSE "red"

\* lib.rs:499-508: the colour of the response time line
classify(time, boundaries) ==
    IF time < boundaries[1] THEN "green"
    ELSE IF time < boundaries[2] THEN "yellow"
    ELSE "red"

\* a variant of status_matches that also asks for a response faster than mid
status_matches_and_fast(response_status, test) ==
    response_status = test.status /\ response_time < time_boundaries[2]

\* lib.rs:515: the outcome of a test that got a response
status_matches(response_status, test) == response_status = test.status

\* a variant of count_tests that leaves out the last test
count_tests_short(tests) == IF tests = <<>> THEN 0 ELSE Len(tests) - 1

\* lib.rs:380: the number of tests of the suite
count_tests(tests) == Len(tests)

----------------------------------------------------------------------------
(* The suites and the APIs the model runs.  A suite is a Config as         *)
(* serde_yaml parses it; an API is given by the statuses, the response     *)
(* times and the bodies it is able to answer with.  Each family varies a   *)
(* few fields of the tests and of the API and leaves the others at the     *)
(* value below.                                                            *)

PlainTest ==
    [it |-> None, critical |-> None, route |-> <<"/", "r">>, method |-> <<"G","E","T">>,
     status |-> 200, json_body |-> None, time_boundaries |-> None, capture |-> None,
     bearer_token |-> None, session_id |-> None, auto_description |-> None,
     verbose |-> None]

PlainConfig ==
    [api_address |-> <<"http://api">>, verbose |-> None, tests |-> <<>>,
     time_boundaries |-> None, to_file |-> None]

EmptyBody == Body(None, None)

PlainApi == [statuses |-> {200}, times |-> {0}, bodies |-> {EmptyBody}]

\* the sequences over V of length lo to hi
SeqsOf(V, lo, hi) == UNION {[1..n -> V] : n \in lo..hi}

Suite(config, service) == [config |-> config, api |-> service]

\* criticalness against every outcome of a request, with and without a log file
ControlSuites ==
    {Suite([PlainConfig EXCEPT !.tests = tests, !.to_file = to_file],
           [PlainApi EXCEPT !.statuses = {200, 404}]) :
        tests \in SeqsOf({[PlainTest EXCEPT !.critical = c] :
                             c \in {None, Some(TRUE), Some(FALSE)}}, 0, MaxTests)
                  \cup {<<PlainTest, [PlainTest EXCEPT !.critical = Some(TRUE)], PlainTest>>},
        to_file \in {None, Some("logs")}}

BoundaryTriples == (0..MaxTime) \X (0..MaxTime) \X (0..MaxTime)

\* one test under every triple of boundaries, declared by the suite or by
\* the test, against every response time
LatencySuites ==
    {Suite([PlainConfig EXCEPT !.tests = <<[PlainTest EXCEPT !.time_boundaries = local,
                                                             !.critical = c]>>,
                               !.time_boundaries = global],
           [PlainApi EXCEPT !.statuses = {200, 404}, !.times = 0..MaxTime]) :
        local \in {None} \cup {Some(t) : t \in BoundaryTriples},
        global \in {None, Some(<<1, 2, 3>>)},
        c \in {None, Some(TRUE)}}

\* overrides of the time boundaries along a suite
OverrideSuites ==
    {Suite([PlainConfig EXCEPT !.tests = tests, !.time_boundaries = global],
           [PlainApi EXCEPT !.times = {1}]) :
        tests \in SeqsOf({[PlainTest EXCEPT !.time_boundaries = Some(<<2, 3, 3>>)],
                          [PlainTest EXCEPT !.time_boundaries = Some(<<0, 1, 2>>)],
                          [PlainTest EXCEPT !.time_boundaries = Some(<<0, 0, 0>>),
                                            !.critical = Some(TRUE)],
                          PlainTest}, 1, 3),
        global \in {None, Some(<<1, 2, 3>>)}}

MethodNames ==
    {<<"G","E","T">>, <<"g","e","t">>, <<"G","e","t">>,
     <<"P","O","S","T">>, <<"p","o","s","t">>, <<"p","o","S","t">>,
     <<"P","U","T">>, <<"p","u","t">>,
     <<"P","A","T","C","H">>, <<"p","a","t","c","h">>, <<"P","a","t","c","h">>,
     <<"D","E","L","E","T","E">>, <<"d","e","l","e","t","e">>,
     <<"O","P","T","I","O","N","S">>, <<"o","p","t","i","o","n","s">>,
     <<"H","E","A","D">>, <<"h","e","a","d">>, <<"h","e","a","D">>,
     <<"F","O","O","B","A","R">>, <<>>, <<"G","E">>, <<"G","E","T","S">>,
     <<"G","E","T"," ">>, <<"T","R","A","C","E">>, <<"c","o","n","n","e","c","t">>}

\* method names and routes, good and bad, at the first or the second test
MethodSuites ==
    {Suite([PlainConfig EXCEPT !.tests = before \o <<[PlainTest EXCEPT !.method = m,
                                                                       !.route = r]>>
                                         \o <<PlainTest>>],
           PlainApi) :
        m \in MethodNames,
        r \in {<<"/", "r">>, <<"/", "a", " ", "b">>},
        before \in {<<>>, <<PlainTest>>}}

CaptureTests ==
    {[PlainTest EXCEPT !.capture = Some([sess |-> "token"])],
     [PlainTest EXCEPT !.capture = Some([sess |-> "id"]), !.status = 404],
     [PlainTest EXCEPT !.capture = Some([sess |-> "token", uid |-> "id"]),
                       !.critical = Some(TRUE)],
     [PlainTest EXCEPT !.capture = Some(("" :> "token"))],
     [PlainTest EXCEPT !.bearer_token = Some("sess")],
     [PlainTest EXCEPT !.bearer_token = Some("uid"), !.session_id = Some("sess")],
     [PlainTest EXCEPT !.capture = Some([sess |-> "token"]), !.bearer_token = Some("sess")],
     PlainTest}

CaptureBodies ==
    {EmptyBody,
     Body(Some("<"), None),
     Body(Some("{"), None),
     Body(Some(" "), Some(JObject([token |-> JString(<<"a","b">>)]))),
     Body(Some("["), Some(JArray)),
     Body(Some("{"), Some(JObject(EmptyMap))),
     Body(Some("{"), Some(JObject([token |-> JString(<<"a","b","c","1","2","3">>)]))),
     Body(Some("{"), Some(JObject([token |-> JString(<<"a","\"","b">>)]))),
     Body(Some("{"), Some(JObject([token |-> JString(<<>>)]))),
     Body(Some("{"), Some(JObject([token |-> JString(<<"a","DEL">>), id |-> JNull]))),
     Body(Some("{"), Some(JObject([token |-> JNumber(125), id |-> JString(<<"x","1">>)]))),
     Body(Some("{"), Some(JObject([token |-> JBool(TRUE), id |-> JNumber(7)]))),
     Body(Some("{"), Some(JObject([token |-> JObject(EmptyMap), id |-> JArray])))}

\* captures and the headers built from them, against every kind of body
CaptureSuites ==
    {Suite([PlainConfig EXCEPT !.tests = tests],
           [PlainApi EXCEPT !.bodies = CaptureBodies]) :
        tests \in SeqsOf(CaptureTests, 1, 2)}

\* verbosity, descriptions, request bodies and the log file
VerboseSuites ==
    {Suite([PlainConfig EXCEPT !.tests = tests, !.verbose = global,
                               !.to_file = Some("logs")],
           [PlainApi EXCEPT !.bodies = {EmptyBody,
                Body(Some("{"), Some(JObject([token |-> JString(<<"a","b">>)])))}]) :
        tests \in SeqsOf({[PlainTest EXCEPT !.verbose = Some(TRUE),
                                            !.capture = Some([sess |-> "token"]),
                                            !.it = Some("logs in")],
                          [PlainTest EXCEPT !.verbose = Some(FALSE),
                                            !.auto_description = Some(FALSE),
                                            !.json_body = Some([user |-> "u", pass |-> "p"])],
                          [PlainTest EXCEPT !.bearer_token = Some("sess"),
                                            !.session_id = Some("sess"),
                                            !.auto_description = Some(TRUE),
                                            !.json_body = Some(EmptyMap)]}, 1, 2),
        global \in {None, Some(TRUE), Some(FALSE)}}

Suites ==
    ControlSuites \cup LatencySuites \cup OverrideSuites \cup MethodSuites
    \cup CaptureSuites \cup VerboseSuites

\* lib.rs:361-387: execute_tests has parsed its config and set up its state
Init ==
    /\ \E suite \in Suites :
          /\ rest_test_config = suite.config
          /\ api = suite.api
    /\ pc = "loop"
    /\ console = <<>>
    /\ log_buffer = IF rest_test_config.to_file # None THEN Some(<<>>) ELSE None
    /\ logfile = None
    /\ test_count = count_tests(rest_test_config.tests)
    /\ test_index = 0
    /\ tests_passed = 0
    /\ time_boundaries = unwrap_or(rest_test_config.time_boundaries, DefaultTimeBoundaries)
    /\ captures = EmptyMap
    /\ response_time = 0
    /\ buffer = EmptyBody
    /\ test_request = None
    /\ response = None
    /\ sent = <<>>

----------------------------------------------------------------------------
(* The steps of execute_tests.  A step runs from one suspension of the     *)
(* function (or the head of its loop) to the next.  The locals of an       *)
(* iteration keep their last value until the next iteration sets them.     *)

\* the output of a step reaches the terminal and the log buffer
Output(out) ==
    /\ console' = printed(out)
    /\ log_buffer' = buffered(out)

\* panic!/unwrap on the main task: the message is printed, the process ends
Panic(out, message) ==
    /\ pc' = "panicked"
    /\ Output(out \o <<println(<<"panicked", message>>)>>)

\* lib.rs:481-490: fetch_url returned an error
SendFailed(out, error, test) ==
    LET failed == out \o <<log(<<"Error while sending request", error>>, TRUE)>>
    IN  IF is_critical(test)
        THEN /\ pc' = "aborted"
             /\ Output(failed \o
                  <<log(<<"Test marked as critical failed, cancelling all further tests.">>,
                        TRUE)>>)
        ELSE /\ pc' = "loop"
             /\ Output(failed)

\* lib.rs:389-476 and 264-324, 246-251: the head of an iteration up to the
\* request being handed to the client
StartTest ==
    /\ pc = "loop"
    /\ test_index < test_count
    /\ LET test == rest_test_config.tests[test_index + 1]
           verbose == effective_verbose(test)
           boundaries == effective_boundaries(test)
           head == <<log(<<"Test", test_index + 1, test_count>>, TRUE)>> \o description(test)
           method == validate_http_method(test.method)
           url == parse_uri(rest_test_config.api_address \o test.route)
       IN  /\ test_index' = test_index + 1
           /\ response_time' = 0
           /\ time_boundaries' = boundaries
           /\ UNCHANGED <<rest_test_config, api, logfile, test_count, tests_passed, captures>>
           /\ IF method = None
              THEN /\ Panic(head, <<"Unknown or unsupported method", test.method>>)
                   /\ UNCHANGED <<buffer, test_request, response, sent>>
              ELSE IF url = None
              THEN /\ Panic(head, <<"called Result::unwrap() on an Err value">>)
                   /\ UNCHANGED <<buffer, test_request, response, sent>>
              ELSE \E order \in Orders(IF test.json_body = None THEN {}
                                       ELSE DOMAIN test.json_body[1]) :
                   LET request == [url |-> url[1],
                                   method |-> method[1],
                                   verbose |-> verbose,
                                   timeout |-> boundaries[3],
                                   body |-> request_body(test.json_body, order),
                                   bearer_token |-> token_of(test.bearer_token),
                                   session_id |-> token_of(test.session_id)]
                       composed == compose_headers(request)
                       out == head
                              \o <<log(<<"Capture Key", unwrap_or(test.bearer_token, "")>>,
                                       verbose)>>
                              \o composed.out
                   IN  /\ buffer' = Body(None, None)
                       /\ test_request' = Some(request)
                       /\ response' = None
                       /\ IF composed.ok
                          THEN /\ sent' = Append(sent, [index |-> test_index + 1,
                                                        method |-> hyper_method(request.method),
                                                        uri |-> request.url,
                                                        headers |-> composed.headers,
                                                        body |-> request.body])
                               /\ pc' = "awaiting"
                               /\ Output(out)
                          ELSE /\ sent' = sent
                               /\ SendFailed(out, "failed to parse header value", test)

\* the test whose request is under way
running_test == rest_test_config.tests[test_index]

\* lib.rs:252-254: the client reports an error (connection refused, reset, ...)
\* a variant of ConnectionError that sends the failed request a second time
ConnectionError_retry ==
    /\ pc = "awaiting"
    /\ Len(sent) <= test_index
    /\ sent' = Append(sent, sent[Len(sent)])
    /\ Output(<<log(<<"Error while sending request", "client error">>, TRUE)>>)
    /\ UNCHANGED <<rest_test_config, api, pc, logfile, test_count, test_index, tests_passed,
                   time_boundaries, captures, response_time, buffer, test_request,
                   response>>

ConnectionError ==
    /\ pc = "awaiting"
    /\ SendFailed(<<>>, "client error", running_test)
    /\ UNCHANGED <<rest_test_config, api, logfile, test_count, test_index, tests_passed,
                   time_boundaries, captures, response_time, buffer, test_request,
                   response, sent>>

\* lib.rs:250-256: the timer of test_request.timeout ms wins the race
RequestTimeout ==
    /\ pc = "awaiting"
    /\ SendFailed(<<>>, "Request timed out.", running_test)
    /\ UNCHANGED <<rest_test_config, api, logfile, test_count, test_index, tests_passed,
                   time_boundaries, captures, response_time, buffer, test_request,
                   response, sent>>

\* lib.rs:252-259, 326-331: the response (status and headers) wins the race
\* after elapsed ms; the elapsed time is read once the race is over.  The
\* timeouts of the model fit in a u64, so the conversion of lib.rs:250 succeeds
ReceiveResponse ==
    /\ pc = "awaiting"
    /\ \E status \in api.statuses, elapsed \in api.times :
          /\ elapsed <= test_request[1].timeout
          /\ response_time' = elapsed
          /\ response' = Some(status)
          /\ Output(<<log(<<"Response Status", status>>, TRUE)>>)
    /\ pc' = "draining"
    /\ UNCHANGED <<rest_test_config, api, logfile, test_count, test_index, tests_passed,
                   time_boundaries, captures, buffer, test_request, sent>>

\* a variant of DrainError that settles the test by the status it has
DrainError_pass ==
    /\ pc = "draining"
    /\ tests_passed' = tests_passed + 1
    /\ pc' = "loop"
    /\ Output(<<log(<<"TEST PASSED">>, TRUE)>>)
    /\ UNCHANGED <<rest_test_config, api, logfile, test_count, test_index,
                   time_boundaries, captures, response_time, buffer, test_request,
                   response, sent>>

\* lib.rs:334-336: reading the body fails (next? is an error)
DrainError ==
    /\ pc = "draining"
    /\ SendFailed(<<>>, "error reading a body from connection", running_test)
    /\ UNCHANGED <<rest_test_config, api, logfile, test_count, test_index, tests_passed,
                   time_boundaries, captures, response_time, buffer, test_request,
                   response, sent>>

\* a variant of DrainComplete that stores the captures of a test only when
\* its status is the expected one
DrainComplete_capture_if_passed ==
    /\ pc = "draining"
    /\ \E body \in api.bodies :
       \E order \in Orders(IF running_test.capture = None THEN {}
                           ELSE DOMAIN running_test.capture[1]) :
          LET test == running_test
              verbose == test_request[1].verbose
              response_status == response[1]
              parsed == parse_json_response(body, captures, test, order)
              passed == status_matches(response_status, test)
              out == <<log(<<"Response Header">>, verbose)>>
                     \o (IF ~is_empty(body) /\ verbose
                         THEN <<log(<<"Response Body">>, TRUE), log(<<"body", body>>, TRUE)>>
                         ELSE <<>>)
                     \o parsed.out
                     \o <<log(<<"Response time", response_time,
                                classify(response_time, time_boundaries)>>, TRUE),
                          log(<<"Expected Status", test.status>>, TRUE)>>
          IN  /\ buffer' = body
              /\ captures' = IF passed THEN parsed.captures ELSE captures
              /\ IF passed
                 THEN /\ tests_passed' = tests_passed + 1
                      /\ pc' = "loop"
                      /\ Output(out \o <<log(<<"TEST PASSED">>, TRUE)>>)
                 ELSE /\ tests_passed' = tests_passed
                      /\ IF is_critical(test)
                         THEN /\ pc' = "aborted"
                              /\ Output(out \o <<println(
                                   <<"Test marked as critical failed, cancelling all further tests.">>)>>)
                         ELSE /\ pc' = "loop"
                              /\ Output(out \o <<log(<<"TEST FAILED">>, TRUE)>>)
    /\ UNCHANGED <<rest_test_config, api, logfile, test_count, test_index,
                   time_boundaries, response_time, test_request, response, sent>>

\* lib.rs:334-347 and 493-527: the body has been read to its end; the
\* response is processed and the test's outcome is recorded
DrainComplete ==
    /\ pc = "draining"
    /\ \E body \in api.bodies :
       \E order \in Orders(IF running_test.capture = None THEN {}
                           ELSE DOMAIN running_test.capture[1]) :
          LET test == running_test
              verbose == test_request[1].verbose
              response_status == response[1]
              parsed == parse_json_response(body, captures, test, order)
              passed == status_matches(response_status, test)
              out == <<log(<<"Response Header">>, verbose)>>
                     \o (IF ~is_empty(body) /\ verbose
                         THEN <<log(<<"Response Body">>, TRUE), log(<<"body", body>>, TRUE)>>
                         ELSE <<>>)
                     \o parsed.out
                     \o <<log(<<"Response time", response_time,
                                classify(response_time, time_boundaries)>>, TRUE),
                          log(<<"Expected Status", test.status>>, TRUE)>>
          IN  /\ buffer' = body
              /\ captures' = parsed.captures
              /\ IF passed
                 THEN /\ tests_passed' = tests_passed + 1
                      /\ pc' = "loop"
                      /\ Output(out \o <<log(<<"TEST PASSED">>, TRUE)>>)
                 ELSE /\ tests_passed' = tests_passed
                      /\ IF is_critical(test)
                         THEN /\ pc' = "aborted"
                              /\ Output(out \o <<println(
                                   <<"Test marked as critical failed, cancelling all further tests.">>)>>)
                         ELSE /\ pc' = "loop"
                              /\ Output(out \o <<log(<<"TEST FAILED">>, TRUE)>>)
    /\ UNCHANGED <<rest_test_config, api, logfile, test_count, test_index,
                   time_boundaries, response_time, test_request, response, sent>>

\* lib.rs:530-535 and 117-162: the final report, then the log file
Finish ==
    /\ pc = "loop"
    /\ test_index = test_count
    /\ LET report == <<log(<<"out of tests passed.", tests_passed, test_count>>, TRUE)>>
       IN  IF rest_test_config.to_file = None
           THEN /\ pc' = "completed"
                /\ Output(report)
                /\ logfile' = logfile
           ELSE \E io \in {"written", "no directory", "not created"} :
                  CASE io = "written" ->
                         /\ pc' = "completed"
                         /\ logfile' = buffered(report)
                         /\ Output(report \o <<println(<<"Successfully wrote to">>)>>)
                    [] io = "no directory" ->
                         /\ pc' = "completed"
                         /\ logfile' = logfile
                         /\ Output(report \o
                              <<println(<<"Error while retrieving path to logfile">>)>>)
                    [] io = "not created" ->
                         /\ logfile' = logfile
                         /\ Panic(report, <<"Couldn't create">>)
    /\ UNCHANGED <<rest_test_config, api, test_count, test_index, tests_passed,
                   time_boundaries, captures, response_time, buffer, test_request,
                   response, sent>>

Next ==
    \/ StartTest
    \/ ConnectionError
    \/ RequestTimeout
    \/ ReceiveResponse
    \/ DrainError
    \/ DrainComplete
    \/ Finish

Spec == Init /\ [][Next]_vars

\* lib.rs:250-256 and 389: the control thread runs whenever it can (the next
\* test starts, the report is written) and the timer of tokio::time::timeout
\* fires while client.request is still pending.  Nothing forces the server to
\* answer, to send its body or to close the connection: lib.rs:334-336 awaits
\* response.data() with no timer beside it
FairSpec ==
    /\ Spec
    /\ WF_vars(StartTest)
    /\ WF_vars(RequestTimeout)
    /\ WF_vars(Finish)

----------------------------------------------------------------------------
(* What the output and the requests tell about a run.                      *)

Tests == rest_test_config.tests

\* the position of the line "Test i/n" in the terminal output
StartLine(i) == CHOOSE k \in 1..Len(console) : console[k][1] = "Test" /\ console[k][2] = i

\* the positions of the lines test i wrote, for a test that has started
LinesOf(i) ==
    {k \in 1..Len(console) :
        /\ k >= StartLine(i)
        /\ i < test_index => k < StartLine(i + 1)}

HasLine(i, tag) == \E k \in LinesOf(i) : console[k][1] = tag

\* the test ended in an error of the transport
Errored(i) == HasLine(i, "Error while sending request")

\* the test got a response and its status was compared
Processed(i) == HasLine(i, "Expected Status")

\* the status of the response the test got
StatusOf(i) == console[CHOOSE k \in LinesOf(i) : console[k][1] = "Response Status"][2]

Matched(i) == Processed(i) /\ StatusOf(i) = Tests[i].status

Mismatched(i) == Processed(i) /\ StatusOf(i) # Tests[i].status

DeclaredCritical(i) == Tests[i].critical = Some(TRUE)

ReportLines == {k \in 1..Len(console) : console[k][1] = "out of tests passed."}

\* the request of the running test, while it is under way
InFlight == pc \in {"awaiting", "draining"}

LastSent == sent[Len(sent)]

----------------------------------------------------------------------------
(* C1: once a critical test fails, by a status mismatch or by an error of  *)
(* the transport (a timeout included), the run is over: no later test is   *)
(* started, no request is sent for a later index, and the failing test     *)
(* adds nothing to tests_passed.                                           *)
C1_CriticalFailureStopsRun ==
    \A i \in 1..test_index :
        (DeclaredCritical(i) /\ (Errored(i) \/ Mismatched(i))) =>
            /\ pc = "aborted"
            /\ test_index = i
            /\ \A r \in 1..Len(sent) : sent[r].index <= i
            /\ ~HasLine(i, "TEST PASSED")
            /\ tests_passed = Cardinality({j \in 1..(i - 1) : Matched(j)})

\* a critical second test fails on a status mismatch after a passed first
\* test, with a third test never reached
C1_Witness ==
    /\ pc = "aborted"
    /\ test_index = 2
    /\ test_count = 3
    /\ DeclaredCritical(2)
    /\ Mismatched(2)
    /\ tests_passed = 1

(* C2: a request of a test that names a stored variable K as its bearer    *)
(* token carries Authorization: Bearer <value stored under K>; a request   *)
(* of a test that names a variable nothing has stored carries no           *)
(* Authorization header.                                                   *)
C2_BearerFromStore ==
    (InFlight /\ Tests[test_index].bearer_token # None) =>
        LET K == Tests[test_index].bearer_token[1]
        IN  /\ LastSent.index = test_index
            /\ IF K \in DOMAIN captures
               THEN /\ "Authorization" \in DOMAIN LastSent.headers
                    /\ LastSent.headers["Authorization"]
                         = <<"B","e","a","r","e","r"," ">> \o captures[K]
               ELSE "Authorization" \notin DOMAIN LastSent.headers

\* the second test sends the token the first one captured from its response
C2_Witness ==
    /\ pc = "awaiting"
    /\ test_index = 2
    /\ Tests[1].capture = Some([sess |-> "token"])
    /\ Tests[2].bearer_token = Some("sess")
    /\ "Authorization" \in DOMAIN LastSent.headers
    /\ LastSent.headers["Authorization"]
         = <<"B","e","a","r","e","r"," ","a","b","c","1","2","3">>

(* C3: the total of the lines "Test i/n" and of the final report is the    *)
(* number of declared tests, whatever part of the suite has run.           *)
C3_TotalIsSuiteLength ==
    /\ test_count = Len(Tests)
    /\ \A k \in 1..Len(console) :
          /\ console[k][1] = "Test" => console[k][3] = Len(Tests)
          /\ console[k][1] = "out of tests passed." => console[k][3] = Len(Tests)

\* a run cut short by a critical failure at the first of two tests
C3_Witness ==
    /\ pc = "aborted"
    /\ test_index = 1
    /\ Len(Tests) = 2
    /\ console[1] = <<"Test", 1, 2>>

(* C4: a run that ends Completed or Aborted has printed the final report   *)
(* with the number of tests whose status matched and the suite's length.   *)
C4_ReportOnCompletedAndAborted ==
    pc \in {"completed", "aborted"} =>
        \E k \in ReportLines :
            /\ console[k][2] = Cardinality({i \in 1..test_index : Matched(i)})
            /\ console[k][3] = Len(Tests)

(* C5, as stated: response_time < low is green, low <= response_time < mid *)
(* is yellow, response_time >= mid is red, for all values of the three.    *)
C5_HalfOpenIntervals ==
    \A k \in 1..Len(console) :
        (console[k][1] = "Response time" /\ k \in LinesOf(test_index)) =>
            LET time == console[k][2]
                colour == console[k][3]
                low == time_boundaries[1]
                mid == time_boundaries[2]
            IN  /\ time < low => colour = "green"
                /\ (low <= time /\ time < mid) => colour = "yellow"
                /\ time >= mid => colour = "red"

(* C5, amended: response_time < low is green, low <= response_time < mid   *)
(* is yellow, and red is what is left: response_time >= low and >= mid.    *)
C5_Cascade ==
    \A k \in 1..Len(console) :
        (console[k][1] = "Response time" /\ k \in LinesOf(test_index)) =>
            LET time == console[k][2]
                colour == console[k][3]
                low == time_boundaries[1]
                mid == time_boundaries[2]
            IN  /\ colour = "green" <=> time < low
                /\ colour = "yellow" <=> (low <= time /\ time < mid)
                /\ colour = "red" <=> (time >= low /\ time >= mid)

\* a response exactly at low, below mid, is yellow
C5_Witness ==
    /\ test_index >= 1
    /\ \E k \in 1..Len(console) :
          /\ console[k][1] = "Response time"
          /\ console[k][2] = time_boundaries[1]
          /\ console[k][2] < time_boundaries[2]
          /\ console[k][3] = "yellow"

(* C6: a test that got a response passes exactly when the status of the    *)
(* response is the expected one, whatever the colour of its response time; *)
(* tests_passed counts those tests, and only a mismatch aborts the run of  *)
(* a test that got a response.                                             *)
C6_PassIsStatusOnly ==
    /\ \A i \in 1..test_index :
          Processed(i) =>
              /\ HasLine(i, "Response time")
              /\ HasLine(i, "TEST PASSED") <=> StatusOf(i) = Tests[i].status
    /\ tests_passed = Cardinality({i \in 1..test_index :
                                      Processed(i) /\ StatusOf(i) = Tests[i].status})
    /\ (pc = "aborted" /\ Processed(test_index)) =>
          StatusOf(test_index) # Tests[test_index].status

\* a response as slow as it gets, red, with the expected status: passed
C6_Witness ==
    /\ pc = "loop"
    /\ test_index = 1
    /\ tests_passed = 1
    /\ \E k \in 1..Len(console) :
          /\ console[k][1] = "Response time"
          /\ console[k][3] = "red"
          /\ console[k][2] = time_boundaries[3]
          /\ console[k][2] > 0

\* the tests up to i that declare time boundaries of their own
Declaring(i) == {j \in 1..i : Tests[j].time_boundaries # None}

\* the boundaries the latest declaring test up to i declares, or the
\* suite's (500, 1000, 10000 when the suite declares none)
LatestOverride(i) ==
    IF Declaring(i) = {}
    THEN IF rest_test_config.time_boundaries = None THEN <<500, 1000, 10000>>
         ELSE rest_test_config.time_boundaries[1]
    ELSE Tests[CHOOSE j \in Declaring(i) : \A l \in Declaring(i) : l <= j].time_boundaries[1]

(* C7: the time boundaries in force at test i are those of the latest test *)
(* up to i that declares some, or the suite's; they set the timeout of     *)
(* test i's own request and the colour of its own response time, and stay  *)
(* in force when the test fails or aborts the run.                         *)
C7_LatestOverrideGoverns ==
    /\ time_boundaries = LatestOverride(test_index)
    /\ (test_index >= 1 /\ test_request # None /\ InFlight) =>
          test_request[1].timeout = LatestOverride(test_index)[3]
    /\ \A k \in 1..Len(console) :
          (console[k][1] = "Response time" /\ k \in LinesOf(test_index)) =>
              LET b == LatestOverride(test_index)
              IN  /\ console[k][2] <= b[3]
                  /\ console[k][3] = "green" <=> console[k][2] < b[1]
                  /\ console[k][3] = "red" <=> (console[k][2] >= b[1] /\ console[k][2] >= b[2])

\* the second test declares nothing and runs under the first test's
\* boundaries, which differ from the suite's
C7_Witness ==
    /\ pc = "draining"
    /\ test_index = 2
    /\ Tests[1].time_boundaries = Some(<<0, 1, 2>>)
    /\ Tests[2].time_boundaries = None
    /\ rest_test_config.time_boundaries = Some(<<1, 2, 3>>)
    /\ time_boundaries = <<0, 1, 2>>
    /\ test_request[1].timeout = 2

UpperOf(s) ==
    [i \in 1..Len(s) |->
        IF \E l \in 1..26 : LowerLetters[l] = s[i]
        THEN UpperLetters[CHOOSE l \in 1..26 : LowerLetters[l] = s[i]]
        ELSE s[i]]

SevenVerbs ==
    {<<"G","E","T">>, <<"P","O","S","T">>, <<"P","U","T">>, <<"P","A","T","C","H">>,
     <<"D","E","L","E","T","E">>, <<"O","P","T","I","O","N","S">>, <<"H","E","A","D">>}

\* the run ended in the panic of an unknown method
MethodPanic ==
    /\ pc = "panicked"
    /\ console[Len(console)][1] = "panicked"
    /\ console[Len(console)][2][1] = "Unknown or unsupported method"

(* C8: a test whose method is none of the seven verbs in any letter case   *)
(* ends the run at that test: no request for it, no later test, no final   *)
(* report; a method that is one of the seven in any letter case never      *)
(* ends the run that way.                                                  *)
C8_UnknownMethodEndsRun ==
    \A i \in 1..test_index :
        IF UpperOf(Tests[i].method) \in SevenVerbs
        THEN ~(MethodPanic /\ test_index = i)
        ELSE /\ MethodPanic
             /\ test_index = i
             /\ \A r \in 1..Len(sent) : sent[r].index < i
             /\ ReportLines = {}

\* FOOBAR at the second of three tests, after a passed first test
C8_Witness ==
    /\ MethodPanic
    /\ test_index = 2
    /\ test_count = 3
    /\ Tests[2].method = <<"F","O","O","B","A","R">>
    /\ tests_passed = 1
    /\ Len(sent) = 1

\* the step that processes a response whose body parsed as a JSON object
CapturingStep ==
    /\ pc = "draining"
    /\ pc' # "draining"
    /\ buffer'.first = Some("{")
    /\ buffer'.json # None
    /\ Tests[test_index].capture # None

(* C9: the store starts empty; no step removes a key; a step changes the   *)
(* store only by the capture directives of the test whose response it      *)
(* processes, and after it each key whose field was found holds the value  *)
(* captured in that step, each other key the value it had.                 *)
C9_StoreGrowsLastWriteWins ==
    /\ captures = EmptyMap
    /\ [][/\ DOMAIN captures \subseteq DOMAIN captures'
          /\ \A K \in DOMAIN captures' :
                IF CapturingStep /\ K \in DOMAIN Tests[test_index].capture[1]
                      /\ ~is_null(index(buffer'.json[1], Tests[test_index].capture[1][K]))
                THEN captures'[K] = string_captured(
                         index(buffer'.json[1], Tests[test_index].capture[1][K]))
                ELSE K \in DOMAIN captures /\ captures'[K] = captures[K]]_vars

\* the second test sent the value the first one captured and has replaced
\* it by the value of its own response
C9_Witness ==
    /\ pc = "loop"
    /\ Len(sent) = 2
    /\ "Authorization" \in DOMAIN sent[2].headers
    /\ sent[2].headers["Authorization"] = <<"B","e","a","r","e","r"," ","x","1">>
    /\ "sess" \in DOMAIN captures
    /\ captures["sess"] = <<"a","b","c","1","2","3">>

(* C10: after a response whose body is a JSON object with field F holding  *)
(* the JSON string s, a capture directive K -> F leaves K mapped to s.     *)
C10_StringCapturedExactly ==
    (/\ pc \in {"loop", "aborted", "completed"}
     /\ test_index >= 1
     /\ buffer.first = Some("{")
     /\ buffer.json # None
     /\ Tests[test_index].capture # None) =>
        \A K \in DOMAIN Tests[test_index].capture[1] :
            LET v == index(buffer.json[1], Tests[test_index].capture[1][K])
            IN  v.t = "string" => (K \in DOMAIN captures /\ captures[K] = v.s)

\* the lines a step adds to the terminal output
NewLines == {k \in 1..Len(console') : k > Len(console)}

\* the step that ends the wait for the body of a response
BodyStep == pc = "draining" /\ pc' # "draining"

(* C11: a test whose body is empty or does not begin with '{' leaves the   *)
(* store as it was and logs neither a parse error nor a missing capture.   *)
C11_NoParseWithoutBrace ==
    [][(BodyStep /\ buffer'.first # Some("{")) =>
          /\ captures' = captures
          /\ \A k \in NewLines :
                console'[k][1] \notin {"Error while parsing response body as json",
                                       "Error: Cannot capture nonexistent value"}]_vars

\* a body that is valid JSON behind a leading space, received by a test
\* with a capture directive: nothing is stored
C11_Witness ==
    /\ pc = "loop"
    /\ test_index = 1
    /\ buffer.first = Some(" ")
    /\ buffer.json # None
    /\ Tests[1].capture = Some([sess |-> "token"])
    /\ Processed(1)
    /\ captures = EmptyMap

(* C12: every run ends: it is completed or aborted (or has panicked) after *)
(* finitely many steps, whatever the server does.                          *)
C12_RunTerminates == <>(pc \in {"completed", "aborted", "panicked"})

\* the requests test i has handed to the client
RequestsOf(i) == {r \in 1..Len(sent) : sent[r].index = i}

\* test i is over: its response was processed or it ended in an error
Resolved(i) == Errored(i) \/ Processed(i)

(* C13: requests leave in the order of the suite, each test sends at most  *)
(* one request and a test that got an answer or a transport error sent     *)
(* exactly one; a request is handed over only while no other one is under  *)
(* way and every earlier test is over; nothing is sent again.              *)
C13_OneAtATimeInOrder ==
    /\ [](/\ \A r \in 1..Len(sent) : sent[r].index \in 1..test_index
          /\ \A r, s \in 1..Len(sent) : r < s => sent[r].index < sent[s].index
          /\ \A i \in 1..test_index : Cardinality(RequestsOf(i)) <= 1
          /\ InFlight => Len(sent) > 0 /\ LastSent.index = test_index
          /\ \A i \in 1..test_index :
                (i < test_index \/ ~InFlight) /\ pc # "panicked"
                   => /\ Resolved(i)
                      /\ Processed(i) \/ HasLine(i, "Response Status")
                           => Cardinality(RequestsOf(i)) = 1)
    /\ [][sent' # sent =>
            /\ ~InFlight
            /\ \A i \in 1..test_index : Resolved(i)
            /\ test_index' = test_index + 1
            /\ Len(sent') = Len(sent) + 1
            /\ sent'[Len(sent')].index = test_index'
            /\ \A r \in 1..Len(sent) : sent'[r] = sent[r]]_vars

\* the second test's request is under way after the first test's request
\* failed: two requests in all, one per test
C13_Witness ==
    /\ test_index = 2
    /\ pc = "awaiting"
    /\ Errored(1)
    /\ ~HasLine(1, "Response Status")
    /\ Len(sent) = 2
    /\ sent[1].index = 1
    /\ sent[2].index = 2

\* the step in which the request of the running test fails before any
\* response arrives: a connection error or the timeout
TransportFailureStep == pc = "awaiting" /\ pc' \notin {"awaiting", "draining"}

(* C14: when the request of a test not declared critical fails, the run    *)
(* goes on to the next test; the count of passed tests, the store and the  *)
(* boundaries in force stay as they were, the only line written is the     *)
(* error, and the test has no line of response processing.                 *)
C14_FailureAdvancesUntouched ==
    /\ [][(TransportFailureStep /\ ~DeclaredCritical(test_index)) =>
             /\ pc' = "loop"
             /\ test_index' = test_index
             /\ tests_passed' = tests_passed
             /\ captures' = captures
             /\ time_boundaries' = time_boundaries
             /\ buffer' = buffer
             /\ \A k \in NewLines : console'[k][1] = "Error while sending request"]_vars
    /\ [](pc = "loop" => IF test_index < test_count THEN ENABLED StartTest
                         ELSE ENABLED Finish)
    /\ [](\A i \in 1..test_index :
             Errored(i) => \A tag \in {"Response Header", "Response Body", "Response time",
                                       "Expected Status", "TEST PASSED", "TEST FAILED",
                                       "Error: Cannot capture nonexistent value",
                                       "Error while parsing response body as json"} :
                              ~HasLine(i, tag))

\* the second test is under way after the first, not critical, failed
\* without a response: nothing has passed, nothing is stored
C14_Witness ==
    /\ test_index = 2
    /\ pc = "awaiting"
    /\ Errored(1)
    /\ ~HasLine(1, "Response Status")
    /\ ~DeclaredCritical(1)
    /\ Tests[1].capture # None
    /\ tests_passed = 0
    /\ captures = EmptyMap

\* a text without its pair of enclosing double quotes, when it has one
unquoted_if_quoted(s) ==
    IF Len(s) >= 2 /\ s[1] = "\"" /\ s[Len(s)] = "\"" THEN SubSeq(s, 2, Len(s) - 1) ELSE s

BadJsonStep == BodyStep /\ buffer'.first = Some("{") /\ buffer'.json = None

(* C16: a body that begins with '{' and does not parse is logged and       *)
(* nothing more: the store stays as it was, the test passes exactly when   *)
(* its status matches, a critical test whose status matches does not end   *)
(* the run, and the run goes on with the next test.                        *)
C16_BadJsonIsNotFatal ==
    /\ [][BadJsonStep =>
            /\ captures' = captures
            /\ \E k \in NewLines :
                  console'[k][1] = "Error while parsing response body as json"
            /\ IF response[1] = Tests[test_index].status
               THEN /\ tests_passed' = tests_passed + 1
                    /\ pc' = "loop"
                    /\ \E k \in NewLines : console'[k][1] = "TEST PASSED"
               ELSE /\ tests_passed' = tests_passed
                    /\ \A k \in NewLines : console'[k][1] # "TEST PASSED"
                    /\ pc' = IF DeclaredCritical(test_index) THEN "aborted" ELSE "loop"]_vars
    /\ [](pc = "loop" /\ test_index < test_count => ENABLED StartTest)

\* a critical second test got '{' followed by something that is not JSON,
\* with the expected status: it passed, the store of the first test is kept
C16_Witness ==
    /\ test_index = 2
    /\ pc = "loop"
    /\ buffer.first = Some("{")
    /\ buffer.json = None
    /\ DeclaredCritical(2)
    /\ Tests[2].capture # None
    /\ Matched(2)
    /\ HasLine(2, "Error while parsing response body as json")
    /\ HasLine(2, "TEST PASSED")
    /\ tests_passed = 2
    /\ captures # EmptyMap

(* C17: when a test with capture directives gets a JSON object, a          *)
(* directive whose field is missing or null leaves its key as it was, set  *)
(* or unset, and writes a warning; every other directive of the test is    *)
(* applied; the test passes exactly when its status matches.               *)
C17_MissingFieldSkipsOneDirective ==
    [][CapturingStep =>
         LET capture == Tests[test_index].capture[1]
             json_body == buffer'.json[1]
         IN  /\ \A K \in DOMAIN capture :
                   IF is_null(index(json_body, capture[K]))
                   THEN /\ (K \in DOMAIN captures') = (K \in DOMAIN captures)
                        /\ K \in DOMAIN captures => captures'[K] = captures[K]
                        /\ \E k \in NewLines :
                              /\ console'[k][1] = "Error: Cannot capture nonexistent value"
                              /\ console'[k][2] = capture[K]
                   ELSE /\ K \in DOMAIN captures'
                        /\ captures'[K] = string_captured(index(json_body, capture[K]))
             /\ \A K \in DOMAIN captures' \ DOMAIN capture :
                   K \in DOMAIN captures /\ captures'[K] = captures[K]
             /\ tests_passed' = IF response[1] = Tests[test_index].status
                                THEN tests_passed + 1 ELSE tests_passed
             /\ (\E k \in NewLines : console'[k][1] = "TEST PASSED")
                   = (response[1] = Tests[test_index].status)]_vars

\* a test with two directives got an object whose field id is null: sess is
\* stored, uid is not, the warning is written and the test passed
C17_Witness ==
    /\ test_index = 1
    /\ pc = "loop"
    /\ Tests[1].capture = Some([sess |-> "token", uid |-> "id"])
    /\ buffer.first = Some("{")
    /\ buffer.json # None
    /\ is_null(index(buffer.json[1], "id"))
    /\ ~is_null(index(buffer.json[1], "token"))
    /\ "sess" \in DOMAIN captures
    /\ "uid" \notin DOMAIN captures
    /\ HasLine(1, "Error: Cannot capture nonexistent value")
    /\ HasLine(1, "TEST PASSED")

\* test i is over, its status line arrived and its response was not processed
DrainFailed(i) ==
    /\ HasLine(i, "Response Status")
    /\ ~Processed(i)
    /\ i < test_index \/ ~InFlight

(* C18: a test whose body cannot be read to its end, after the status      *)
(* arrived, ends as a transport error: it is not counted as passed even    *)
(* when the status is the expected one, nothing of the body is parsed or   *)
(* stored, a critical test ends the run there and any other test lets the  *)
(* run go on.                                                              *)
C18_DrainFailureIsTransportFailure ==
    /\ [](/\ tests_passed = Cardinality({i \in 1..test_index : Matched(i)})
          /\ \A i \in 1..test_index :
                DrainFailed(i) =>
                   /\ Errored(i)
                   /\ \A tag \in {"TEST PASSED", "Response Header", "Response Body",
                                  "Error: Cannot capture nonexistent value",
                                  "Error while parsing response body as json"} :
                         ~HasLine(i, tag)
                   /\ DeclaredCritical(i) => pc = "aborted" /\ test_index = i
                   /\ ~DeclaredCritical(i) /\ test_index = i => pc \in {"loop", "completed",
                                                                        "panicked"})
    /\ [][(pc = "draining" /\ \A k \in NewLines : console'[k][1] # "Expected Status") =>
             /\ captures' = captures
             /\ tests_passed' = tests_passed
             /\ pc' = IF DeclaredCritical(test_index) THEN "aborted" ELSE "loop"]_vars

\* the first test's body broke off after the expected status had arrived:
\* the test did not pass, stored nothing, and the second test is under way
C18_Witness ==
    /\ test_index = 2
    /\ pc = "awaiting"
    /\ DrainFailed(1)
    /\ StatusOf(1) = Tests[1].status
    /\ Tests[1].capture # None
    /\ tests_passed = 0
    /\ captures = EmptyMap

\* the verbosity test i declares, else the suite's, else off
DeclaredVerbose(i) ==
    IF Tests[i].verbose # None THEN Tests[i].verbose[1]
    ELSE IF rest_test_config.verbose # None THEN rest_test_config.verbose[1]
    ELSE FALSE

(* C19: each test runs with the verbosity it declares, else the suite's,   *)
(* else none, whatever the tests before it declared: its request carries   *)
(* that verbosity and the response headers are written exactly when it is  *)
(* on; the suite's default is never changed by a test.                     *)
C19_VerbosityPerTest ==
    /\ [](/\ InFlight => test_request[1].verbose = DeclaredVerbose(test_index)
          /\ \A i \in 1..test_index :
                Processed(i) => (HasLine(i, "Response Header") = DeclaredVerbose(i)))
    /\ [][rest_test_config' = rest_test_config]_vars

\* a verbose first test and a second test that declares nothing in a suite
\* that is not verbose: the second test's headers are not written
C19_Witness ==
    /\ test_index = 2
    /\ Tests[1].verbose = Some(TRUE)
    /\ Tests[2].verbose = None
    /\ rest_test_config.verbose # Some(TRUE)
    /\ Processed(1)
    /\ Processed(2)
    /\ HasLine(1, "Response Header")
    /\ ~HasLine(2, "Response Header")

(* C20: the request of a test that declares no bearer token variable has   *)
(* no Authorization header, and the request of a test that declares no     *)
(* session variable has no Cookie header, whatever the store holds.        *)
C20_NoVariableNoHeader ==
    \A r \in 1..Len(sent) :
        /\ Tests[sent[r].index].bearer_token = None
              => "Authorization" \notin DOMAIN sent[r].headers
        /\ Tests[sent[r].index].session_id = None
              => "Cookie" \notin DOMAIN sent[r].headers

\* the step that hands the request of the next test to the client
SendStep == sent' # sent

(* C21: a test that gets a JSON object stores its captures before and      *)
(* whatever the status comparison says: with a status other than the       *)
(* expected one the fields found are stored all the same and the test is   *)
(* not counted as passed.  The store changes only when a body has been     *)
(* read, so the headers of a request are made from the store as the tests  *)
(* before it left it, failed ones included, and never from the test's own  *)
(* captures.                                                               *)
C21_CaptureBeforeStatus ==
    /\ [][(CapturingStep /\ response[1] # Tests[test_index].status) =>
             /\ tests_passed' = tests_passed
             /\ \A K \in DOMAIN Tests[test_index].capture[1] :
                   LET v == index(buffer'.json[1], Tests[test_index].capture[1][K])
                   IN  ~is_null(v) => /\ K \in DOMAIN captures'
                                      /\ captures'[K] = string_captured(v)]_vars
    /\ [][captures' # captures => BodyStep /\ ~SendStep]_vars
    /\ [][\A K \in DOMAIN captures : K \in DOMAIN captures']_vars
    /\ [][SendStep =>
             LET test == Tests[test_index']
                 headers == sent'[Len(sent')].headers
             IN  /\ test.bearer_token # None =>
                       IF test.bearer_token[1] \in DOMAIN captures
                       THEN /\ "Authorization" \in DOMAIN headers
                            /\ headers["Authorization"]
                                 = BearerPrefix \o captures[test.bearer_token[1]]
                       ELSE "Authorization" \notin DOMAIN headers
                 /\ test.session_id # None =>
                       IF test.session_id[1] \in DOMAIN captures
                       THEN /\ "Cookie" \in DOMAIN headers
                            /\ headers["Cookie"] = CookiePrefix \o captures[test.session_id[1]]
                       ELSE "Cookie" \notin DOMAIN headers]_vars

\* the first test, not critical, failed on its status and stored the field
\* id of its body under sess; the second test sends it as its bearer token
C21_Witness ==
    /\ test_index = 2
    /\ pc = "awaiting"
    /\ Tests[1].capture = Some([sess |-> "id"])
    /\ Mismatched(1)
    /\ HasLine(1, "TEST FAILED")
    /\ tests_passed = 0
    /\ Tests[2].bearer_token = Some("sess")
    /\ "sess" \in DOMAIN captures
    /\ captures["sess"] = <<"x", "1">>
    /\ "Authorization" \in DOMAIN LastSent.headers
    /\ LastSent.headers["Authorization"] = BearerPrefix \o <<"x", "1">>

====
